---- MODULE Spec2Model ----
(***************************************************************************)
(* Telemetry metrics endpoints of my-vercel-fastapi.                       *)
(*                                                                         *)
(* The repository holds three variants of one POST endpoint:               *)
(*   app.py           compute_metrics   (CSV, heuristic column discovery)  *)
(*   api/metrices.py  compute_metrics   (JSON, "region"/"latenc"/"uptime") *)
(*   main.py          latency_metrics   (JSON records, fixed keys, numpy)  *)
(* Each handler is stateless: it loads the telemetry batch, resolves the   *)
(* fields, and aggregates per requested region.  The state of the model is *)
(* the telemetry batch on disk together with the last request served and   *)
(* what the handler returned (or raised).                                  *)
(*                                                                         *)
(* Text is a sequence of one-character strings, so that lower-casing and   *)
(* substring tests are computed.  A float is an exact fraction [n, d];     *)
(* NaN is [n |-> 0, d |-> 0].  Values are non-negative.                    *)
(***************************************************************************)
EXTENDS Integers, Sequences, FiniteSets

VARIABLES telemetry, handler, request, outcome, detail, resolved, response

vars == <<telemetry, handler, request, outcome, detail, resolved, response>>

----------------------------------------------------------------------------
(* Bounds of the model *)

MaxRows == 2

MaxRegions == 3

MaxCols == 3

----------------------------------------------------------------------------
(* Text *)

UpperChars == <<"A","B","C","D","E","F","G","H","I","J","K","L","M",
                "N","O","P","Q","R","S","T","U","V","W","X","Y","Z">>

LowerChars == <<"a","b","c","d","e","f","g","h","i","j","k","l","m",
                "n","o","p","q","r","s","t","u","v","w","x","y","z">>

\* the characters that have a lower-case form, each with that form
LowerTable ==
    [c \in {UpperChars[i] : i \in 1..Len(UpperChars)} |->
        LowerChars[CHOOSE i \in 1..Len(UpperChars) : UpperChars[i] = c]]

LowerChar(c) == IF c \in DOMAIN LowerTable THEN LowerTable[c] ELSE c

\* str.lower()
Lower(s) == [i \in 1..Len(s) |-> LowerChar(s[i])]

\* sub in s
Contains(s, sub) ==
    \E i \in 0..(Len(s) - Len(sub)) : SubSeq(s, i + 1, i + Len(sub)) = sub

Digits == <<"0","1","2","3","4","5","6","7","8","9">>

IsDigit(c) == \E i \in 1..10 : Digits[i] = c

DigitVal(c) == (CHOOSE i \in 1..10 : Digits[i] = c) - 1

RECURSIVE ParseInt(_)
ParseInt(s) ==
    IF Len(s) = 0 THEN 0
    ELSE 10 * ParseInt(SubSeq(s, 1, Len(s) - 1)) + DigitVal(s[Len(s)])

RECURSIVE IntText(_)
IntText(n) ==
    IF n < 10 THEN <<Digits[n + 1]>>
    ELSE IntText(n \div 10) \o <<Digits[(n % 10) + 1]>>

t_region == <<"r","e","g","i","o","n">>
t_Region == <<"R","e","g","i","o","n">>
t_zone == <<"z","o","n","e">>
t_loc == <<"l","o","c">>
t_location == <<"l","o","c","a","t","i","o","n">>
t_latenc == <<"l","a","t","e","n","c">>
t_ms == <<"m","s">>
t_latency_ms == <<"l","a","t","e","n","c","y","_","m","s">>
t_resp_ms == <<"r","e","s","p","_","m","s">>
t_uptime == <<"u","p","t","i","m","e">>
t_up == <<"u","p">>
t_is_up == <<"i","s","_","u","p">>
t_available == <<"a","v","a","i","l","a","b","l","e">>
t_status == <<"s","t","a","t","u","s">>
t_uptime_dummy == <<"_","_","u","p","t","i","m","e","_","d","u","m","m","y","_","_">>
t_eu == <<"e","u">>
t_EU == <<"E","U">>
t_Us == <<"U","s">>
t_NA == <<"N","/","A">>
t_ok == <<"o","k">>
t_200 == <<"2","0","0">>

----------------------------------------------------------------------------
(* Cells and floats *)

Num(n) == [t |-> "num", n |-> n, s |-> <<>>]

Str(s) == [t |-> "str", n |-> 0, s |-> s]

NaNCell == [t |-> "nan", n |-> 0, s |-> <<>>]

RECURSIVE GCD(_, _)
GCD(a, b) == IF b = 0 THEN a ELSE GCD(b, a % b)

Rat(n, d) == LET g == GCD(n, d) IN [n |-> n \div g, d |-> d \div g]

NaN == [n |-> 0, d |-> 0]

IsNaN(x) == x.d = 0

Zero == Rat(0, 1)

One == Rat(1, 1)

RECURSIVE Pow10(_)
Pow10(p) == IF p = 0 THEN 1 ELSE 10 * Pow10(p - 1)

\* round(x, p): to the nearest multiple of 10^-p, an exact tie to the even one;
\* round(nan, p) is nan.
Round(x, p) ==
    IF IsNaN(x) THEN NaN
    ELSE LET num == x.n * Pow10(p)
             q   == num \div x.d
             r2  == 2 * (num % x.d)
             up  == r2 > x.d \/ (r2 = x.d /\ q % 2 = 1)
         IN Rat(IF up THEN q + 1 ELSE q, Pow10(p))

----------------------------------------------------------------------------
(* Data frames: an ordered list of column names and rows of cells *)

None == <<>>

HasColumn(df, name) == \E i \in 1..Len(df.columns) : df.columns[i] = name

ColIndex(df, name) == CHOOSE i \in 1..Len(df.columns) : df.columns[i] = name

Names(columns) == {columns[i] : i \in 1..Len(columns)}

\* the first column, in column order, among the matching ones; None when there
\* is none (for c in df.columns: if <matches>: return c)
FirstColumn(columns, matching) ==
    IF \E i \in 1..Len(columns) : columns[i] \in matching
    THEN columns[CHOOSE i \in 1..Len(columns) :
                    /\ columns[i] \in matching
                    /\ \A j \in 1..(i - 1) : columns[j] \notin matching]
    ELSE None

\* df[name] = cell
AddColumn(df, name, cell) ==
    [df EXCEPT !.columns = Append(@, name),
               !.rows = [r \in 1..Len(@) |-> Append(@[r], cell)]]

IsNumericText(s) == Len(s) > 0 /\ \A i \in 1..Len(s) : IsDigit(s[i])

\* pd.to_numeric(value, errors="coerce") on one cell
CoerceCell(c) ==
    IF c.t = "num" THEN c
    ELSE IF c.t = "str" /\ IsNumericText(c.s) THEN Num(ParseInt(c.s))
    ELSE NaNCell

\* df[name] = pd.to_numeric(df[name], errors="coerce")
ToNumeric(df, name) ==
    LET k == ColIndex(df, name)
    IN [df EXCEPT !.rows = [r \in 1..Len(@) |-> [@[r] EXCEPT ![k] = CoerceCell(@)]]]

\* .astype(str) on one cell
AsStr(c) ==
    IF c.t = "str" THEN c.s
    ELSE IF c.t = "num" THEN IntText(c.n)
    ELSE <<"n","a","n">>

\* df[df[name].astype(str).str.lower() == region.lower()]
SelectRegion(df, name, region) ==
    LET k == ColIndex(df, name)
        wanted == Lower(region)
    IN SelectSeq(df.rows, LAMBDA row : Lower(AsStr(row[k])) = wanted)

\* sub[name].dropna() as a sequence of numbers
DropNa(sub, k) ==
    LET kept == SelectSeq(sub, LAMBDA row : row[k].t = "num")
    IN [i \in 1..Len(kept) |-> kept[i][k].n]

RECURSIVE Sum(_)
Sum(xs) == IF Len(xs) = 0 THEN 0 ELSE xs[1] + Sum(Tail(xs))

\* Series.mean(): NaN for an empty series
Mean(xs) == IF Len(xs) = 0 THEN NaN ELSE Rat(Sum(xs), Len(xs))

RECURSIVE Insert(_, _)
Insert(x, sorted) ==
    IF Len(sorted) = 0 THEN <<x>>
    ELSE IF x <= sorted[1] THEN <<x>> \o sorted
    ELSE <<sorted[1]>> \o Insert(x, Tail(sorted))

RECURSIVE Sort(_)
Sort(xs) == IF Len(xs) = 0 THEN <<>> ELSE Insert(xs[1], Sort(Tail(xs)))

\* ceil(0.95 * (n - 1)), the 0-based rank taken by interpolation="higher"
HigherIndex(n) == (19 * (n - 1) + 19) \div 20

\* Series.quantile(0.95, interpolation="higher"): NaN for an empty series
QuantileHigher(xs) ==
    IF Len(xs) = 0 THEN NaN
    ELSE Rat(Sort(xs)[HigherIndex(Len(xs)) + 1], 1)

\* np.percentile(xs, 95): linear interpolation between the two neighbours of
\* the rank 0.95 * (n - 1)
PercentileLinear(xs) ==
    LET a  == Sort(xs)
        n  == Len(xs)
        lo == (19 * (n - 1)) \div 20
        fr == (19 * (n - 1)) % 20
        hi == IF lo + 1 < n THEN lo + 1 ELSE lo
    IN Rat(20 * a[lo + 1] + fr * (a[hi + 1] - a[lo + 1]), 20)

\* a count that takes a value equal to the threshold for a breach
Breaches_NotStrict(xs, threshold) == Len(SelectSeq(xs, LAMBDA x : x >= threshold))

\* (lat > threshold).sum()
Breaches(xs, threshold) == Len(SelectSeq(xs, LAMBDA x : x > threshold))

\* a response kept as a list of entries, one per loop iteration
DictSet_Append(d, key, entry) == Append(d, <<key, entry>>)

\* response[key] = entry on an insertion-ordered dict, kept as a sequence of
\* <<key, entry>> pairs: an existing key keeps its place and takes the new value
DictSet(d, key, entry) ==
    IF \E i \in 1..Len(d) : d[i][1] = key
    THEN [i \in 1..Len(d) |-> IF d[i][1] = key THEN <<key, entry>> ELSE d[i]]
    ELSE Append(d, <<key, entry>>)

Entry(avg_latency, p95_latency, avg_uptime, breaches) ==
    [avg_latency |-> avg_latency, p95_latency |-> p95_latency,
     avg_uptime |-> avg_uptime, breaches |-> breaches]

Resolved(region_col, lat_col, up_col) ==
    [region_col |-> region_col, lat_col |-> lat_col, up_col |-> up_col]

Result(o, d, res, resp) ==
    [outcome |-> o, detail |-> d, resolved |-> res, response |-> resp]

----------------------------------------------------------------------------
(* app.py *)

\* a resolver that prefers any "latenc" column to any "ms" column
find_latency_column_TwoLevel(df) ==
    LET c == FirstColumn(df.columns, {x \in Names(df.columns) : Contains(Lower(x), t_latenc)})
    IN IF c # None THEN c
       ELSE FirstColumn(df.columns, {x \in Names(df.columns) : Contains(Lower(x), t_ms)})

\* find_latency_column: one pass over the columns; None stands for KeyError
find_latency_column(df) ==
    FirstColumn(df.columns,
                {c \in Names(df.columns) : Contains(Lower(c), t_latenc) \/ Contains(Lower(c), t_ms)})

\* a resolver that prefers any "uptime" column to any up/is_up/available column
find_uptime_column_ThreeLevel(df) ==
    LET c == FirstColumn(df.columns, {x \in Names(df.columns) : Contains(Lower(x), t_uptime)})
        e == FirstColumn(df.columns,
                 {x \in Names(df.columns) : Lower(x) \in {t_up, t_is_up, t_available}})
    IN IF c # None THEN c
       ELSE IF e # None THEN e
       ELSE IF HasColumn(df, t_status) THEN t_status
       ELSE None

\* find_uptime_column: one pass over the columns, then the column named
\* "status"; None stands for KeyError
find_uptime_column(df) ==
    LET c == FirstColumn(df.columns,
                 {x \in Names(df.columns) : Contains(Lower(x), t_uptime)
                            \/ Lower(x) \in {t_up, t_is_up, t_available}})
    IN IF c # None THEN c
       ELSE IF HasColumn(df, t_status) THEN t_status
       ELSE None

\* df.get("region", df.columns[0]): the column "region" when there is one;
\* otherwise the default, which is the first column's NAME (a str), and the
\* .astype(str) that follows raises AttributeError
AppRegionSeries(df) ==
    IF HasColumn(df, t_region)
    THEN [series |-> TRUE, name |-> t_region]
    ELSE [series |-> FALSE, name |-> df.columns[1]]

\* lines 76-82: the rows of the requested region
AppSubset(df, region) ==
    LET sub == SelectRegion(df, t_region, region)
        rc  == FirstColumn(df.columns,
                   {c \in Names(df.columns) : Lower(c) \in {t_region, t_loc, t_location, t_zone}})
    IN IF Len(sub) = 0 /\ ~HasColumn(df, t_region) /\ rc # None
       THEN SelectRegion(df, rc, region)
       ELSE sub

\* a synthesized uptime of 0 (assume down)
AppDummyUptime_Zero == Num(0)

\* df["__uptime_dummy__"] = 1
AppDummyUptime == Num(1)

\* lines 84-107: the entry of one region
AppEntry(df, sub, lat_col, up_col, threshold) ==
    LET lat == DropNa(sub, ColIndex(df, lat_col))
        up  == DropNa(sub, ColIndex(df, up_col))
    IN IF Len(sub) = 0 \/ Len(lat) = 0
       THEN Entry(Round(Zero, 3), Round(Zero, 3), Round(Zero, 6), 0)
       ELSE Entry(Round(Mean(lat), 3),
                  Round(QuantileHigher(lat), 3),
                  Round(IF Len(up) # 0 THEN Mean(up) ELSE Zero, 6),
                  Breaches(lat, threshold))

\* lines 75-109: the loop over req.regions
RECURSIVE AppLoop(_, _, _, _, _, _)
AppLoop(df, lat_col, up_col, req, i, resp) ==
    IF i > Len(req.regions)
    THEN Result("ok", "", Resolved(IF HasColumn(df, t_region) THEN t_region ELSE None,
                                   lat_col, up_col), resp)
    ELSE IF ~AppRegionSeries(df).series
    THEN Result("raised", "AttributeError", Resolved(None, lat_col, up_col), <<>>)
    ELSE AppLoop(df, lat_col, up_col, req, i + 1,
                 DictSet(resp, req.regions[i],
                         AppEntry(df, AppSubset(df, req.regions[i]),
                                  lat_col, up_col, req.threshold_ms)))

\* compute_metrics of app.py
AppComputeMetrics(tel, req) ==
    IF ~tel.exists
    THEN Result("raised", "FileNotFoundError", Resolved(None, None, None), <<>>)
    ELSE LET df0     == [columns |-> tel.columns, rows |-> tel.rows]
             lat_col == find_latency_column(df0)
             found   == find_uptime_column(df0)
             df1     == IF found = None
                        THEN AddColumn(df0, t_uptime_dummy, AppDummyUptime) ELSE df0
             up_col  == IF found = None THEN t_uptime_dummy ELSE found
         IN IF lat_col = None
            THEN Result("http400", "No latency column found",
                        Resolved(None, None, None), <<>>)
            ELSE AppLoop(ToNumeric(ToNumeric(df1, lat_col), up_col),
                         lat_col, up_col, req, 1, <<>>)

----------------------------------------------------------------------------
(* api/metrices.py *)

\* df["uptime"] = 1.0
ApiDefaultUptime == Num(1)

\* lines 58-73: the entry of one region
ApiEntry(df, sub, lat_col, up_col, threshold) ==
    LET lat == DropNa(sub, ColIndex(df, lat_col))
        up  == DropNa(sub, ColIndex(df, up_col))
    IN IF Len(sub) = 0
       THEN Entry(Zero, Zero, Zero, 0)
       ELSE Entry(Round(Mean(lat), 2),
                  Round(QuantileHigher(lat), 2),
                  Round(Mean(up), 4),
                  Breaches(lat, threshold))

\* lines 57-74: the loop over req.regions
RECURSIVE ApiLoop(_, _, _, _, _, _, _)
ApiLoop(df, region_col, lat_col, up_col, req, i, results) ==
    IF i > Len(req.regions)
    THEN Result("ok", "", Resolved(region_col, lat_col, up_col), results)
    ELSE ApiLoop(df, region_col, lat_col, up_col, req, i + 1,
                 DictSet(results, req.regions[i],
                         ApiEntry(df, SelectRegion(df, region_col, req.regions[i]),
                                  lat_col, up_col, req.threshold_ms)))

\* compute_metrics of api/metrices.py
ApiComputeMetrics(tel, req) ==
    IF ~tel.exists
    THEN Result("raised", "FileNotFoundError", Resolved(None, None, None), <<>>)
    ELSE LET df0        == [columns |-> tel.columns, rows |-> tel.rows]
             region_col == FirstColumn(df0.columns,
                               {c \in Names(df0.columns) : Contains(Lower(c), t_region)})
             lat_col    == FirstColumn(df0.columns,
                               {c \in Names(df0.columns) : Contains(Lower(c), t_latenc)})
             found      == FirstColumn(df0.columns,
                               {c \in Names(df0.columns) : Contains(Lower(c), t_uptime)})
             df1        == IF found = None
                           THEN AddColumn(df0, t_uptime, ApiDefaultUptime) ELSE df0
             up_col     == IF found = None THEN t_uptime ELSE found
         IN IF region_col = None
            THEN Result("http400", "No region column found",
                        Resolved(None, None, None), <<>>)
            ELSE IF lat_col = None
            THEN Result("http400", "No latency column found",
                        Resolved(region_col, None, None), <<>>)
            ELSE ApiLoop(ToNumeric(ToNumeric(df1, lat_col), up_col),
                         region_col, lat_col, up_col, req, 1, <<>>)

----------------------------------------------------------------------------
(* main.py *)

\* r[key] for every record r of rows: KeyError when the records have no such key
HasKey(tel, key) == \E i \in 1..Len(tel.columns) : tel.columns[i] = key

\* np.array of the values under one key; numeric only when every value is a number
AllNumbers(sub, k) == \A i \in 1..Len(sub) : sub[i][k].t = "num"

Values(sub, k) == [i \in 1..Len(sub) |-> sub[i][k].n]

\* lines 28-46: the loop over regions
RECURSIVE MainLoop(_, _, _, _)
MainLoop(tel, req, i, results) ==
    IF i > Len(req.regions) THEN Result("ok", "", Resolved(None, None, None), results)
    ELSE IF Len(tel.rows) > 0 /\ ~HasKey(tel, t_region)
    THEN Result("raised", "KeyError", Resolved(None, None, None), <<>>)
    ELSE LET region_data ==
                 IF Len(tel.rows) = 0 THEN <<>>
                 ELSE SelectSeq(tel.rows,
                          LAMBDA r : r[ColIndex(tel, t_region)] = Str(req.regions[i]))
         IN IF Len(region_data) = 0
            THEN MainLoop(tel, req, i + 1, results)
            ELSE IF ~HasKey(tel, t_latency_ms) \/ ~HasKey(tel, t_uptime)
            THEN Result("raised", "KeyError", Resolved(None, None, None), <<>>)
            ELSE IF ~AllNumbers(region_data, ColIndex(tel, t_latency_ms))
                    \/ ~AllNumbers(region_data, ColIndex(tel, t_uptime))
            THEN Result("raised", "TypeError", Resolved(None, None, None), <<>>)
            ELSE LET latencies == Values(region_data, ColIndex(tel, t_latency_ms))
                     uptimes   == Values(region_data, ColIndex(tel, t_uptime))
                 IN MainLoop(tel, req, i + 1,
                        DictSet(results, req.regions[i],
                                Entry(Mean(latencies),
                                      PercentileLinear(latencies),
                                      Mean(uptimes),
                                      Breaches(latencies, req.threshold_ms))))

\* latency_metrics of main.py
MainLatencyMetrics(tel, req) ==
    IF ~tel.exists
    THEN Result("raised", "FileNotFoundError", Resolved(None, None, None), <<>>)
    ELSE MainLoop(tel, req, 1, <<>>)

----------------------------------------------------------------------------
(* Telemetry batches and requests *)

RegionCells == {Str(t_eu), Str(t_Us)}

LatencyCells == {Num(150), Num(200), Str(t_NA)}

UptimeCells == {Num(0), Num(1)}

ColumnPool == {t_region, t_Region, t_zone, t_latency_ms, t_resp_ms,
               t_uptime, t_up, t_status}

CellsFor(name) ==
    IF name = t_region THEN RegionCells
    ELSE IF name = t_latency_ms THEN LatencyCells
    ELSE UptimeCells

\* the one cell of a column in the batches whose columns vary: a region, a
\* number, a number written as text, or text that is no number
DefaultCell(name) ==
    IF name \in {t_region, t_Region, t_zone} THEN Str(t_eu)
    ELSE IF name = t_latency_ms THEN Num(150)
    ELSE IF name = t_resp_ms THEN Str(t_200)
    ELSE IF name \in {t_uptime, t_up} THEN Num(1)
    ELSE Str(t_ok)

AllCells == RegionCells \cup LatencyCells \cup UptimeCells

SeqsUpTo(S, n) == UNION {[1..k -> S] : k \in 0..n}

RowsOf(layout) ==
    {row \in [1..Len(layout) -> AllCells] :
        \A i \in 1..Len(layout) : row[i] \in CellsFor(layout[i])}

\* the layouts whose rows vary: with and without an uptime column
AggLayouts == {<<t_region, t_latency_ms, t_uptime>>, <<t_region, t_latency_ms>>}

\* every order of up to MaxCols distinct column names
SchemaLayouts ==
    {l \in SeqsUpTo(ColumnPool, MaxCols) :
        Len(l) > 0 /\ \A i, j \in 1..Len(l) : i # j => l[i] # l[j]}

Missing == [exists |-> FALSE, columns |-> <<>>, rows |-> <<>>]

\* batches of up to MaxRows rows over the fixed layouts, and the missing file
AggTelemetries ==
    {Missing}
    \cup UNION {{[exists |-> TRUE, columns |-> l, rows |-> rs] :
                    rs \in SeqsUpTo(RowsOf(l), MaxRows)} : l \in AggLayouts}

\* batches of one row over every layout
SchemaTelemetries ==
    {[exists |-> TRUE, columns |-> l,
      rows |-> <<[i \in 1..Len(l) |-> DefaultCell(l[i])]>>] : l \in SchemaLayouts}

RegionNames == {t_EU, t_Us}

Thresholds == {150, 200}

Requests ==
    {[regions |-> rs, threshold_ms |-> th] :
        rs \in SeqsUpTo(RegionNames, MaxRegions), th \in Thresholds}

----------------------------------------------------------------------------
(* The state machine: a telemetry batch is deployed with the service; one
   invocation loads it, serves one request with one of the three handlers
   and keeps nothing for the next invocation *)

NoRequest == [regions |-> <<>>, threshold_ms |-> 0]

Start(batches) ==
    /\ telemetry \in batches
    /\ handler = "none"
    /\ request = NoRequest
    /\ outcome = "none"
    /\ detail = ""
    /\ resolved = Resolved(None, None, None)
    /\ response = <<>>

Serve(name, req, r) ==
    /\ handler' = name
    /\ request' = req
    /\ outcome' = r.outcome
    /\ detail' = r.detail
    /\ resolved' = r.resolved
    /\ response' = r.response
    /\ UNCHANGED telemetry

\* POST /api/metrics of app.py
PostAppMetrics ==
    /\ handler = "none"
    /\ \E req \in Requests :
          \E r \in {AppComputeMetrics(telemetry, req)} : Serve("app", req, r)

\* POST / of api/metrices.py
PostApiMetrics ==
    /\ handler = "none"
    /\ \E req \in Requests :
          \E r \in {ApiComputeMetrics(telemetry, req)} : Serve("api", req, r)

\* POST / of main.py
PostLatencyMetrics ==
    /\ handler = "none"
    /\ \E req \in Requests :
          \E r \in {MainLatencyMetrics(telemetry, req)} : Serve("main", req, r)

Next == PostAppMetrics \/ PostApiMetrics \/ PostLatencyMetrics

Init == Start(AggTelemetries)

InitSchema == Start(SchemaTelemetries)

\* the aggregation over batches whose rows vary
Spec == Init /\ [][Next]_vars

\* the field resolution over batches whose columns vary
SpecSchema == InitSchema /\ [][Next]_vars

----------------------------------------------------------------------------
(* What the claims speak of, stated on the state: the batch, the request and
   the response *)

Served == handler # "none"

Succeeded == Served /\ outcome = "ok"

Requested == {request.regions[i] : i \in 1..Len(request.regions)}

HasEntry(r) == \E i \in 1..Len(response) : response[i][1] = r

EntryOf(r) == response[CHOOSE i \in 1..Len(response) : response[i][1] = r][2]

Keys == [i \in 1..Len(response) |-> response[i][1]]

ColumnNames == {telemetry.columns[i] : i \in 1..Len(telemetry.columns)}

CellAt(i, name) ==
    telemetry.rows[i][CHOOSE k \in 1..Len(telemetry.columns) : telemetry.columns[k] = name]

IsNumber(c) == c.t = "num" \/ (c.t = "str" /\ IsNumericText(c.s))

NumberOf(c) == IF c.t = "num" THEN c.n ELSE ParseInt(c.s)

\* the fields the handler works on: those it resolved, or main.py's fixed keys
RegionField == IF handler = "main" THEN t_region ELSE resolved.region_col

LatencyField == IF handler = "main" THEN t_latency_ms ELSE resolved.lat_col

\* a batch that has both fields
RegionBatch ==
    telemetry.exists /\ RegionField \in ColumnNames /\ LatencyField \in ColumnNames

\* the records of region r, compared as lower-case text
Matching(r) ==
    LET wanted == Lower(r)
    IN {i \in 1..Len(telemetry.rows) : Lower(CellAt(i, RegionField).s) = wanted}

\* the records of region r that carry a latency
WithLatency(r) == {i \in Matching(r) : IsNumber(CellAt(i, LatencyField))}

LatencyAt(i) == NumberOf(CellAt(i, LatencyField))

ZeroEntry == Entry(Zero, Zero, Zero, 0)

----------------------------------------------------------------------------
(* C10: in app.py and api/metrices.py, for every requested region with at
   least one non-missing latency value, breaches is the number of non-missing
   latency values of the region's records that are strictly greater than the
   threshold: a value equal to the threshold, a missing value and a record of
   another region are not counted, so 0 <= breaches <= |L|. *)
C10_BreachesStrictCount ==
    (handler \in {"app", "api"} /\ Succeeded /\ RegionBatch) =>
        \A r \in Requested :
            LET L == WithLatency(r)
            IN L # {} =>
                  /\ HasEntry(r)
                  /\ EntryOf(r).breaches =
                         Cardinality({i \in L : LatencyAt(i) > request.threshold_ms})
                  /\ EntryOf(r).breaches <= Cardinality(L)

\* a region with one latency equal to the threshold and one above it: one breach
C10_Witness ==
    /\ handler = "app" /\ Succeeded /\ RegionBatch
    /\ \E r \in Requested :
          /\ \E i \in WithLatency(r) : LatencyAt(i) = request.threshold_ms
          /\ \E i \in WithLatency(r) : LatencyAt(i) > request.threshold_ms
          /\ EntryOf(r).breaches = 1

(* C3 as stated: the response has one entry per element of the region list,
   in the caller's order, duplicates preserved, so that the number of entries
   equals the length of the list. *)
C3_OneEntryPerElement ==
    (handler \in {"app", "api"} /\ Succeeded) =>
        /\ Len(response) = Len(request.regions)
        /\ \A i \in 1..Len(response) : response[i][1] = request.regions[i]

\* the distinct strings of a list, in the order of their first occurrence
FirstOccurrences(xs) ==
    LET firsts == {i \in 1..Len(xs) : \A j \in 1..(i - 1) : xs[j] # xs[i]}
        nth[k \in 1..Cardinality(firsts)] ==
            CHOOSE i \in firsts : Cardinality({j \in firsts : j < i}) = k - 1
    IN [k \in 1..Cardinality(firsts) |-> xs[nth[k]]]

(* C3 as amended: a successful response of app.py or api/metrices.py has one
   entry per DISTINCT string of the region list, in the order of first
   occurrence; a string that occurs again is computed again and written under
   the same key, so the number of entries is the number of distinct strings. *)
C3_OneEntryPerDistinctRegion ==
    (handler \in {"app", "api"} /\ Succeeded) =>
        /\ Keys = FirstOccurrences(request.regions)
        /\ Len(response) = Cardinality(Requested)

\* regions ["EU","Us","EU"] answered with the two entries EU, Us
C3_Witness ==
    /\ handler = "app" /\ Succeeded
    /\ request.regions = <<t_EU, t_Us, t_EU>>
    /\ Keys = <<t_EU, t_Us>>

RECURSIVE SumLatency(_)
SumLatency(S) ==
    IF S = {} THEN 0
    ELSE LET i == CHOOSE x \in S : TRUE IN LatencyAt(i) + SumLatency(S \ {i})

\* the value of 0-based rank k among the latencies of the records S
RankedLatency(S, k) ==
    CHOOSE v \in {LatencyAt(i) : i \in S} :
        /\ Cardinality({i \in S : LatencyAt(i) < v}) <= k
        /\ Cardinality({i \in S : LatencyAt(i) <= v}) > k

(* C1: whenever the request succeeds, a requested region with no matching
   record (compared case-insensitively), or whose matching records all lack a
   latency after coercion, has an entry, and that entry is exactly
   avg_latency = 0.0, p95_latency = 0.0, avg_uptime = 0.0, breaches = 0: the
   region is neither omitted nor given NaN statistics. *)
C1_ZeroResultPolicy ==
    (Succeeded /\ RegionBatch) =>
        \A r \in Requested :
            WithLatency(r) = {} => (HasEntry(r) /\ EntryOf(r) = ZeroEntry)

\* C1 for app.py alone, where it holds
C1_AppZeroResultPolicy ==
    (handler = "app" /\ Succeeded /\ RegionBatch) =>
        \A r \in Requested :
            WithLatency(r) = {} => (HasEntry(r) /\ EntryOf(r) = ZeroEntry)

(* C6: a record belongs to the subset of a requested region exactly when its
   region value, lower-cased, equals the lower-cased requested string, and the
   region's statistics are computed from exactly that subset (app.py and
   main.py): a region with such records carrying a latency has an entry whose
   breaches and average latency are those of that subset. *)
C6_CaseInsensitiveSelection ==
    (handler \in {"app", "main"} /\ Succeeded /\ RegionBatch) =>
        \A r \in Requested :
            WithLatency(r) # {} =>
                /\ HasEntry(r)
                /\ EntryOf(r).breaches =
                       Cardinality({i \in WithLatency(r) :
                                       LatencyAt(i) > request.threshold_ms})
                /\ Round(EntryOf(r).avg_latency, 3) =
                       Round(Rat(SumLatency(WithLatency(r)),
                                 Cardinality(WithLatency(r))), 3)

\* C6 for app.py alone, where it holds
C6_AppCaseInsensitiveSelection ==
    (handler = "app") => C6_CaseInsensitiveSelection

(* C9: for every region answered from a non-empty set L of non-missing
   latencies (n = |L|), p95_latency is an element of L, the value at index
   ceil(0.95 * (n - 1)) of L sorted ascending, never a value interpolated
   between two samples (app.py and main.py). *)
C9_P95IsHigherRankSample ==
    (handler \in {"app", "main"} /\ Succeeded /\ RegionBatch) =>
        \A r \in Requested :
            (HasEntry(r) /\ WithLatency(r) # {}) =>
                LET L == WithLatency(r)
                    n == Cardinality(L)
                    k == CHOOSE c \in 0..(n - 1) :
                             20 * c >= 19 * (n - 1) /\ 20 * (c - 1) < 19 * (n - 1)
                IN /\ \E i \in L : EntryOf(r).p95_latency = Rat(LatencyAt(i), 1)
                   /\ EntryOf(r).p95_latency = Rat(RankedLatency(L, k), 1)

\* C9 for app.py alone, where it holds
C9_AppP95IsHigherRankSample ==
    (handler = "app") => C9_P95IsHigherRankSample

\* no column that either resolver takes for the uptime
NoUptimeField ==
    /\ telemetry.exists
    /\ \A c \in ColumnNames :
          /\ ~Contains(Lower(c), t_uptime)
          /\ Lower(c) \notin {t_up, t_is_up, t_available}
          /\ c # t_status

(* C5 as stated: for a batch with no uptime-like field, resolution does not
   fail and avg_uptime is 1.0 for every requested region that has at least
   one matching record, regardless of that region's latency values. *)
C5_UptimeDefaultForEveryMatchedRegion ==
    (handler \in {"app", "api"} /\ Served /\ RegionBatch /\ NoUptimeField) =>
        /\ outcome = "ok"
        /\ \A r \in Requested :
              Matching(r) # {} => (HasEntry(r) /\ EntryOf(r).avg_uptime = One)

(* C5 as amended: for a batch with no uptime-like field, resolution does not
   fail and the uptime is a synthesized field of 1.0.  In api/metrices.py
   avg_uptime is 1.0 for every requested region with at least one matching
   record.  In app.py avg_uptime is 1.0 for every requested region with at
   least one matching record that carries a latency; a region whose matching
   records all lack a latency gets the zero-result entry, avg_uptime 0.0. *)
C5_UptimeDefault ==
    (handler \in {"app", "api"} /\ Served /\ RegionBatch /\ NoUptimeField) =>
        /\ outcome = "ok"
        /\ resolved.up_col \notin ColumnNames
        /\ \A r \in Requested :
              /\ (Matching(r) # {} /\ handler = "api") =>
                     (HasEntry(r) /\ EntryOf(r).avg_uptime = One)
              /\ (WithLatency(r) # {} /\ handler = "app") =>
                     (HasEntry(r) /\ EntryOf(r).avg_uptime = One)
              /\ (Matching(r) # {} /\ WithLatency(r) = {} /\ handler = "app") =>
                     (HasEntry(r) /\ EntryOf(r).avg_uptime = Zero)

\* app.py on a batch without uptime: a region with latencies has avg_uptime 1.0
\* and a region whose records all lack a latency has avg_uptime 0.0
C5_Witness ==
    /\ handler = "app" /\ Succeeded /\ RegionBatch /\ NoUptimeField
    /\ \E r \in Requested : WithLatency(r) # {} /\ EntryOf(r).avg_uptime = One
    /\ \E r \in Requested :
          Matching(r) # {} /\ WithLatency(r) = {} /\ EntryOf(r).avg_uptime = Zero

----------------------------------------------------------------------------
(* Field resolution, stated on the column names of the batch *)

LatencLike(c) == Contains(Lower(c), t_latenc)

MsLike(c) == Contains(Lower(c), t_ms)

RegionLike(c) == Contains(Lower(c), t_region)

ZoneLike(c) == Lower(c) \in {t_location, t_zone, t_loc}

UptimeLike(c) == Contains(Lower(c), t_uptime)

UpNamed(c) == Lower(c) \in {t_up, t_is_up, t_available}

\* the earliest column among those of the set S of names; None when S is empty
Earliest(S) ==
    IF S = {} THEN None
    ELSE telemetry.columns[
             CHOOSE i \in 1..Len(telemetry.columns) :
                 /\ telemetry.columns[i] \in S
                 /\ \A j \in 1..Len(telemetry.columns) :
                        telemetry.columns[j] \in S => i <= j]

\* the first non-None of a list of candidates
RECURSIVE Preferred(_)
Preferred(cs) ==
    IF Len(cs) = 0 THEN None
    ELSE IF cs[1] # None THEN cs[1] ELSE Preferred(Tail(cs))

\* the handler got as far as resolving the latency field
LatencyStage ==
    /\ handler \in {"app", "api"} /\ Served /\ telemetry.exists
    /\ handler = "api" => \E c \in ColumnNames : RegionLike(c)

LatencyIs(expected) ==
    IF expected = None
    THEN outcome = "http400" /\ detail = "No latency column found" /\ response = <<>>
    ELSE resolved.lat_col = expected

(* C7 as stated: the latency field is the first field whose name contains
   "latenc"; a field whose name merely contains "ms" is chosen only when no
   field contains "latenc", even if it comes earlier; with neither, the
   request fails with a schema error. *)
C7_LatencyTwoLevelPrecedence ==
    LatencyStage =>
        LatencyIs(Preferred(<<Earliest({c \in ColumnNames : LatencLike(c)}),
                              Earliest({c \in ColumnNames : MsLike(c)})>>))

(* C7 as amended: in app.py the latency field is the first field, in column
   order, whose lower-cased name contains "latenc" or "ms" (one level: an "ms"
   field that comes first is chosen over a later "latenc" field), and the
   request fails with status 400 when there is none.  In api/metrices.py it is
   the first field whose lower-cased name contains "latenc", and the request
   fails with status 400 when there is none, an "ms" field notwithstanding. *)
C7_LatencyResolution ==
    LatencyStage =>
        LatencyIs(IF handler = "app"
                  THEN Earliest({c \in ColumnNames : LatencLike(c) \/ MsLike(c)})
                  ELSE Earliest({c \in ColumnNames : LatencLike(c)}))

\* app.py takes resp_ms, which comes before latency_ms
C7_Witness ==
    /\ handler = "app" /\ Served
    /\ Len(telemetry.columns) >= 2
    /\ telemetry.columns[1] = t_resp_ms /\ telemetry.columns[2] = t_latency_ms
    /\ resolved.lat_col = t_resp_ms

\* the handler got as far as resolving the uptime field
UptimeStage ==
    /\ handler \in {"app", "api"} /\ Served /\ telemetry.exists
    /\ resolved.lat_col # None

(* C8 as stated: the first field whose name contains "uptime" wins; only if
   none exists, the first field named "up", "is_up" or "available"; only if
   none of those exists, the field named "status"; a field of a lower level
   is never chosen while a field of a higher level exists. *)
C8_UptimeThreeLevelPrecedence ==
    UptimeStage =>
        LET expected ==
                Preferred(<<Earliest({c \in ColumnNames : UptimeLike(c)}),
                            Earliest({c \in ColumnNames : UpNamed(c)}),
                            Earliest({c \in ColumnNames : c = t_status})>>)
        IN expected # None => resolved.up_col = expected

(* C8 as amended: in app.py the uptime field is the first field, in column
   order, whose lower-cased name contains "uptime" or is "up", "is_up" or
   "available" (one level: an "up" field that comes first is chosen over a
   later "uptime" field); only if there is none, the field named "status";
   otherwise a synthesized field.  In api/metrices.py it is the first field
   whose lower-cased name contains "uptime", otherwise a synthesized field:
   "up", "is_up", "available" and "status" are not looked at. *)
C8_UptimeResolution ==
    UptimeStage =>
        LET expected ==
                IF handler = "app"
                THEN Preferred(<<Earliest({c \in ColumnNames :
                                              UptimeLike(c) \/ UpNamed(c)}),
                                 Earliest({c \in ColumnNames : c = t_status})>>)
                ELSE Earliest({c \in ColumnNames : UptimeLike(c)})
        IN IF expected # None
           THEN resolved.up_col = expected
           ELSE resolved.up_col \notin ColumnNames

\* app.py takes up, which comes before uptime
C8_Witness ==
    /\ handler = "app" /\ Served
    /\ telemetry.columns = <<t_up, t_uptime, t_latency_ms>>
    /\ resolved.up_col = t_up

\* the handler got as far as looking for the region field
RegionStage ==
    /\ handler \in {"app", "api"} /\ Served /\ telemetry.exists
    /\ Len(request.regions) > 0
    /\ handler = "app" => \E c \in ColumnNames : LatencLike(c) \/ MsLike(c)
    /\ handler = "api" => \E c \in ColumnNames : LatencLike(c)

(* C4: the region field is the first field whose name contains "region"
   (case-insensitively); only if there is none, the first field whose
   lower-cased name is "location", "zone" or "loc"; if neither exists the
   whole request fails and no statistics are produced (any failure of the
   whole request is taken for the schema error here). *)
C4_RegionFieldResolution ==
    RegionStage =>
        LET expected ==
                Preferred(<<Earliest({c \in ColumnNames : RegionLike(c)}),
                            Earliest({c \in ColumnNames : ZoneLike(c)})>>)
        IN IF expected = None
           THEN outcome # "ok" /\ response = <<>>
           ELSE outcome = "ok" /\ resolved.region_col = expected

(* C2: every invocation of app.py or main.py ends either in one failure for
   the whole request, the batch not loaded or the schema not resolved, or in a
   response with an entry of the four statistics for every requested region;
   once the schema is resolved the aggregation loop does not raise. *)
C2_FailureOrCompleteMapping ==
    (handler \in {"app", "main"} /\ Served) =>
        \/ outcome = "raised" /\ detail = "FileNotFoundError"
        \/ outcome = "http400"
        \/ /\ outcome = "ok"
           /\ \A r \in Requested :
                 /\ HasEntry(r)
                 /\ DOMAIN EntryOf(r) =
                        {"avg_latency", "p95_latency", "avg_uptime", "breaches"}

====
